---- MODULE Spec2Model ----
\* A model of the quality scoring engine of content-split
\* (src/scorer/quality_scorer.py).
\*
\* Texts are sequences of one-character strings.  The backquote cannot be
\* written in a TLA+ string, so the character is the atom BQ below.
\* Scores are integers in thousandths (1.0 is 1000), which is the grid every
\* scorer rounds to with round(x, 3); weights are in hundredths.
EXTENDS Integers, Sequences, FiniteSets, TLC

VARIABLES
    pending,           \* the calls the caller is still to make, in order
    done,              \* the calls made, each with what it returned or raised
    halfway_up,        \* where the code's doubles round a halfway value up
    DIMENSION_WEIGHTS, \* the module's weight table, in hundredths
    QUALITY_RATINGS,   \* the module's rating table, thresholds in thousandths
    usage_file,        \* what USAGE_FILE holds: the counter of each key and month
    month,             \* the calendar month that datetime.now() is in
    requests,          \* the requests being served, each with where it stands
    units_due          \* one unit for each completed call of track_usage

\* What the scoring engine reads and writes, and what the middleware does
scoring == <<pending, done, halfway_up, DIMENSION_WEIGHTS, QUALITY_RATINGS>>
metering == <<usage_file, month, requests, units_due>>
vars == <<pending, done, halfway_up, DIMENSION_WEIGHTS, QUALITY_RATINGS,
          usage_file, month, requests, units_due>>

------------------------------------------------------------------------
\* Characters and Python's string primitives

BQ == "BACKQUOTE"

PyWhitespace == {" ", "\t", "\n", "\r", "\f"}
JsonWhitespace == {" ", "\t", "\n", "\r"}
ControlChars == {"\t", "\n", "\r", "\f"}
Digits == {"0", "1", "2", "3", "4", "5", "6", "7", "8", "9"}
UpperCase == {"A", "B", "C", "D", "E", "F", "G", "H", "I", "J", "K", "L", "M",
              "N", "O", "P", "Q", "R", "S", "T", "U", "V", "W", "X", "Y", "Z"}
LowerCase == {"a", "b", "c", "d", "e", "f", "g", "h", "i", "j", "k", "l", "m",
              "n", "o", "p", "q", "r", "s", "t", "u", "v", "w", "x", "y", "z"}
WordChars == UpperCase \cup LowerCase \cup Digits \cup {"_"}

UpperSeq == <<"A", "B", "C", "D", "E", "F", "G", "H", "I", "J", "K", "L", "M",
              "N", "O", "P", "Q", "R", "S", "T", "U", "V", "W", "X", "Y", "Z">>
LowerSeq == <<"a", "b", "c", "d", "e", "f", "g", "h", "i", "j", "k", "l", "m",
              "n", "o", "p", "q", "r", "s", "t", "u", "v", "w", "x", "y", "z">>

Min(S) == CHOOSE m \in S : \A n \in S : m <= n
Max(S) == CHOOSE m \in S : \A n \in S : m >= n

\* c.lower()
LowerChar(c) ==
    IF c \in UpperCase
    THEN LowerSeq[CHOOSE k \in 1..26 : UpperSeq[k] = c]
    ELSE c

\* s.lower()
Lower(s) == [k \in 1..Len(s) |-> LowerChar(s[k])]

\* s[i-1:j-1] of Python, for 1 <= i: the characters at positions i..j-1
Slice(s, i, j) == IF j <= i THEN <<>> ELSE SubSeq(s, i, j - 1)

\* s.startswith(p, i-1): p occurs in s at position i
OccursAt(s, p, i) ==
    /\ i >= 1
    /\ i + Len(p) - 1 <= Len(s)
    /\ \A k \in 1..Len(p) : s[i + k - 1] = p[k]

StartsWith(s, p) == OccursAt(s, p, 1)

\* p in s
Contains(s, p) == \E i \in 1..(Len(s) + 1) : OccursAt(s, p, i)

\* s.find(p) + 1, or 0 when p does not occur
Find(s, p) ==
    IF Contains(s, p)
    THEN Min({i \in 1..(Len(s) + 1) : OccursAt(s, p, i)})
    ELSE 0

\* s.strip()
Strip(s) ==
    LET keep == {k \in 1..Len(s) : s[k] \notin PyWhitespace}
    IN  IF keep = {} THEN <<>> ELSE SubSeq(s, Min(keep), Max(keep))

\* The length of the run of characters of class C that starts at position i
RunLen(s, C, i) ==
    Min({k \in 0..(Len(s) + 1 - i) : i + k > Len(s) \/ s[i + k] \notin C})

\* The start of the run of c's that position i lies in
RunStart(s, c, i) ==
    Max({j \in 1..i : j = 1 \/ s[j - 1] # c})

\* The places where s.count(p) and s.split(p) find p, for a p of n times the
\* character c: they scan left to right and never overlap, so inside a run of
\* c's the occurrences start at the multiples of n from the run's start
OccurrencesRepeated(s, c, n) ==
    {i \in 1..Len(s) :
        /\ i + n - 1 <= Len(s)
        /\ \A k \in 0..(n - 1) : s[i + k] = c
        /\ (i - RunStart(s, c, i)) % n = 0}

CountRepeated(s, c, n) == Cardinality(OccurrencesRepeated(s, c, n))

\* s.count(c) for one character
CountChar(s, c) == Cardinality({i \in 1..Len(s) : s[i] = c})

------------------------------------------------------------------------
\* json.loads.  A parsed value is a tagged tuple:
\*   <<"null">>, <<"bool", b>>, <<"num", digits>>, <<"str", chars>>,
\*   <<"list", items>>, <<"dict", keys, values>>
\* where a dict keeps its keys in the order of their first occurrence and, as
\* Python's dict does, the last value given for a key.
\* The texts of the model hold no backslash, no exponent and no NaN or
\* Infinity literal, so string escapes and those number forms are left out.

JNull == <<"null">>
JBool(b) == <<"bool", b>>
JNum(ds) == <<"num", ds>>
JStr(cs) == <<"str", cs>>
JList(items) == <<"list", items>>
JDict(keys, vals) == <<"dict", keys, vals>>

IsDict(v) == v[1] = "dict"
IsList(v) == v[1] = "list"
IsNone(v) == v[1] = "null"
IsEmptyStr(v) == v[1] = "str" /\ Len(v[2]) = 0
IsEmptyList(v) == v[1] = "list" /\ Len(v[2]) = 0
IsEmptyDict(v) == v[1] = "dict" /\ Len(v[2]) = 0

\* d[k] = v
DictPut(keys, vals, k, v) ==
    IF \E j \in 1..Len(keys) : keys[j] = k
    THEN <<keys, [vals EXCEPT ![CHOOSE j \in 1..Len(keys) : keys[j] = k] = v]>>
    ELSE <<Append(keys, k), Append(vals, v)>>

\* The parser's results: a value and the position after it, or a failure
\* (json.JSONDecodeError)
Parsed(v, p) == [ok |-> TRUE, v |-> v, p |-> p]
ParseError == [ok |-> FALSE, v |-> JNull, p |-> 0]

\* The whitespace skipped by the decoder's WHITESPACE.match(s, i).end()
SkipWs(s, i) == i + RunLen(s, JsonWhitespace, i)

\* py_scanstring with strict=True, from the position after the opening
\* quote: a control character inside the string is an error
ScanString(s, i) ==
    LET quotes == {j \in i..Len(s) : s[j] = "\""}
    IN  IF quotes = {} THEN ParseError
        ELSE LET e == Min(quotes)
             IN  IF \E j \in i..(e - 1) : s[j] \in ControlChars
                 THEN ParseError
                 ELSE Parsed(JStr(Slice(s, i, e)), e + 1)

\* NUMBER_RE: -?(0|[1-9]\d*)(\.\d+)?
ScanNumber(s, i) ==
    LET j == IF i <= Len(s) /\ s[i] = "-" THEN i + 1 ELSE i
        n == IF j <= Len(s) /\ s[j] = "0" THEN 1 ELSE RunLen(s, Digits, j)
        k == j + n
        f == IF k + 1 <= Len(s) /\ s[k] = "." THEN RunLen(s, Digits, k + 1) ELSE 0
        e == IF f > 0 THEN k + 1 + f ELSE k
    IN  IF n = 0 THEN ParseError ELSE Parsed(JNum(Slice(s, i, e)), e)

RECURSIVE ScanOnce(_, _), ScanMembers(_, _, _, _), ScanElements(_, _, _)

\* JSONObject's loop, at the opening quote of a key
ScanMembers(s, i, keys, vals) ==
    LET k == ScanString(s, i + 1)
    IN  IF ~k.ok THEN ParseError
        ELSE LET c == SkipWs(s, k.p)
             IN  IF c > Len(s) \/ s[c] # ":" THEN ParseError
                 ELSE LET v == ScanOnce(s, SkipWs(s, c + 1))
                      IN  IF ~v.ok THEN ParseError
                          ELSE LET d == DictPut(keys, vals, k.v[2], v.v)
                                   n == SkipWs(s, v.p)
                               IN  IF n > Len(s) THEN ParseError
                                   ELSE IF s[n] = "}"
                                   THEN Parsed(JDict(d[1], d[2]), n + 1)
                                   ELSE IF s[n] # "," THEN ParseError
                                   ELSE LET q == SkipWs(s, n + 1)
                                        IN  IF q > Len(s) \/ s[q] # "\""
                                            THEN ParseError
                                            ELSE ScanMembers(s, q, d[1], d[2])

\* JSONArray's loop, at the start of an element
ScanElements(s, i, items) ==
    LET v == ScanOnce(s, i)
    IN  IF ~v.ok THEN ParseError
        ELSE LET n == SkipWs(s, v.p)
             IN  IF n > Len(s) THEN ParseError
                 ELSE IF s[n] = "]"
                 THEN Parsed(JList(Append(items, v.v)), n + 1)
                 ELSE IF s[n] # "," THEN ParseError
                 ELSE ScanElements(s, SkipWs(s, n + 1), Append(items, v.v))

\* scanner.py_make_scanner's _scan_once
ScanOnce(s, i) ==
    IF i > Len(s) THEN ParseError
    ELSE IF s[i] = "\"" THEN ScanString(s, i + 1)
    ELSE IF s[i] = "{"
    THEN LET q == SkipWs(s, i + 1)
         IN  IF q > Len(s) THEN ParseError
             ELSE IF s[q] = "}" THEN Parsed(JDict(<<>>, <<>>), q + 1)
             ELSE IF s[q] # "\"" THEN ParseError
             ELSE ScanMembers(s, q, <<>>, <<>>)
    ELSE IF s[i] = "["
    THEN LET q == SkipWs(s, i + 1)
         IN  IF q > Len(s) THEN ParseError
             ELSE IF s[q] = "]" THEN Parsed(JList(<<>>), q + 1)
             ELSE ScanElements(s, q, <<>>)
    ELSE IF OccursAt(s, <<"n", "u", "l", "l">>, i) THEN Parsed(JNull, i + 4)
    ELSE IF OccursAt(s, <<"t", "r", "u", "e">>, i) THEN Parsed(JBool(TRUE), i + 4)
    ELSE IF OccursAt(s, <<"f", "a", "l", "s", "e">>, i) THEN Parsed(JBool(FALSE), i + 5)
    ELSE ScanNumber(s, i)

\* json.loads(s): [ok |-> TRUE, v |-> value], or ok = FALSE for a
\* json.JSONDecodeError (no value, or extra data after it)
json_loads(s) ==
    LET r == ScanOnce(s, SkipWs(s, 1))
    IN  IF r.ok /\ SkipWs(s, r.p) = Len(s) + 1 THEN r ELSE ParseError

------------------------------------------------------------------------
\* Python's re, for the patterns of the source.  A pattern is a tree:
\*   <<"lit", c>>        the character c
\*   <<"set", S>>        a character of S          ([...], \s, \d, \w)
\*   <<"nset", S>>       a character not in S      ([^...]), newline included
\*   <<"any">>           any character but newline (.)
\*   <<"bol">> <<"eol">> ^ and $                   <<"wb">>  \b
\*   <<"cat", ps>>       the patterns ps in sequence
\*   <<"alt", ps>>       the first of ps that lets the rest match  (a|b)
\*   <<"rep", p, lo, hi>> p, greedy, lo to hi times (hi = -1: no limit), for
\*                       a p that matches one character  (* + {m,n})
\* Flags are [m |-> re.MULTILINE given, i |-> re.IGNORECASE given].

Lit(c) == <<"lit", c>>
Set(S) == <<"set", S>>
NotSet(S) == <<"nset", S>>
Dot == <<"any">>
Bol == <<"bol">>
Eol == <<"eol">>
WordBoundary == <<"wb">>
Cat(ps) == <<"cat", ps>>
Alt(ps) == <<"alt", ps>>
Rep(p, lo, hi) == <<"rep", p, lo, hi>>
Star(p) == Rep(p, 0, -1)
Plus(p) == Rep(p, 1, -1)
\* A literal string
Str(cs) == Cat([k \in 1..Len(cs) |-> Lit(cs[k])])

NoFlags == [m |-> FALSE, i |-> FALSE]
MULTILINE == [m |-> TRUE, i |-> FALSE]
MULTILINE_IGNORECASE == [m |-> TRUE, i |-> TRUE]

\* Whether the one-character pattern p matches the character at position i
CharMatches(p, s, i, fl) ==
    /\ i <= Len(s)
    /\ CASE p[1] = "lit" ->
                IF fl.i THEN LowerChar(s[i]) = LowerChar(p[2]) ELSE s[i] = p[2]
         [] p[1] = "set" ->
                s[i] \in p[2] \/ (fl.i /\ LowerChar(s[i]) \in p[2])
         [] p[1] = "nset" -> s[i] \notin p[2]
         [] p[1] = "any" -> s[i] # "\n"

IsWordAt(s, i) == i >= 1 /\ i <= Len(s) /\ s[i] \in WordChars

RECURSIVE Match(_, _, _, _)

\* The backtracking matcher: the position after the match of the patterns K
\* (in sequence) that starts at position i, or 0 when there is none.  The
\* alternatives are tried in the order re tries them, so the match found is
\* the one re finds.
Match(K, s, i, fl) ==
    IF Len(K) = 0 THEN i
    ELSE LET p == Head(K)
             R == Tail(K)
         IN  CASE p[1] \in {"lit", "set", "nset", "any"} ->
                      IF CharMatches(p, s, i, fl) THEN Match(R, s, i + 1, fl) ELSE 0
               [] p[1] = "bol" ->
                      IF i = 1 \/ (fl.m /\ s[i - 1] = "\n")
                      THEN Match(R, s, i, fl) ELSE 0
               [] p[1] = "eol" ->
                      IF i = Len(s) + 1 \/ (fl.m /\ s[i] = "\n")
                      THEN Match(R, s, i, fl) ELSE 0
               [] p[1] = "wb" ->
                      IF IsWordAt(s, i - 1) # IsWordAt(s, i)
                      THEN Match(R, s, i, fl) ELSE 0
               [] p[1] = "cat" -> Match(p[2] \o R, s, i, fl)
               [] p[1] = "alt" ->
                      IF Len(p[2]) = 0 THEN 0
                      ELSE LET r == Match(<<Head(p[2])>> \o R, s, i, fl)
                           IN  IF r # 0 THEN r
                               ELSE Match(<<Alt(Tail(p[2]))>> \o R, s, i, fl)
               [] p[1] = "rep" ->
                      LET room == IF p[4] = -1 THEN Len(s) + 1 - i
                                  ELSE Min({p[4], Len(s) + 1 - i})
                          run == Min({k \in 0..room :
                                        k = room \/ ~CharMatches(p[2], s, i + k, fl)})
                          ks == {k \in p[3]..run : Match(R, s, i + k, fl) # 0}
                      IN  IF ks = {} THEN 0 ELSE Match(R, s, i + Max(ks), fl)

\* The positions where a match of p starts
MatchStarts(p, s, fl) == {i \in 1..(Len(s) + 1) : Match(<<p>>, s, i, fl) # 0}

\* re.search(p, s, flags) is not None
re_search(p, s, fl) == \E i \in 1..(Len(s) + 1) : Match(<<p>>, s, i, fl) # 0

\* re.match(p, s, flags) is not None: a match that starts at the start of s
re_match(p, s, fl) == Match(<<p>>, s, 1, fl) # 0

RECURSIVE CountMatches(_, _, _, _, _)

\* The matches re.findall and re.finditer find from position i on: the
\* leftmost match, then the leftmost one after its end (no pattern of the
\* source matches the empty string)
CountMatches(p, s, fl, starts, i) ==
    LET later == {j \in starts : j >= i}
    IN  IF later = {} THEN 0
        ELSE 1 + CountMatches(p, s, fl, starts, Match(<<p>>, s, Min(later), fl))

\* len(re.findall(p, s, flags))
re_count(p, s, fl) == CountMatches(p, s, fl, MatchStarts(p, s, fl), 1)

------------------------------------------------------------------------
\* Results of a call: a value, or an exception that propagates

Returned(v) == [exc |-> "none", v |-> v]
Raised(e) == [exc |-> e, v |-> <<>>]

\* FormatType
JSON == "json"
MARKDOWN == "markdown"
CODE == "code"
TEXT == "text"
FormatType == {JSON, MARKDOWN, CODE, TEXT}

\* Whether the character at position i of a pattern text is escaped: an odd
\* number of backslashes precedes it
Escaped(text, i) ==
    LET run == Min({k \in 0..(i - 1) : k = i - 1 \/ text[i - 1 - k] # "\\"})
    IN  run % 2 = 1

\* Whether position i of a pattern text lies inside a [...] set: the nearest
\* bracket before it opens one
InSet(text, i) ==
    LET bs == {j \in 1..(i - 1) : text[j] \in {"[", "]"} /\ ~Escaped(text, j)}
    IN  bs # {} /\ text[Max(bs)] = "["

\* The parentheses of a pattern text that open and close its groups
GroupParens(text, c) ==
    {i \in 1..Len(text) : text[i] = c /\ ~Escaped(text, i) /\ ~InSet(text, i)}

\* Whether re can compile the pattern text: every group that is opened is
\* closed ("missing ), unterminated subpattern") and none is closed that was
\* not opened ("unbalanced parenthesis")
re_compiles(text) ==
    LET opens == GroupParens(text, "(")
        closes == GroupParens(text, ")")
    IN  /\ Cardinality(opens) = Cardinality(closes)
        /\ \A i \in closes :
              Cardinality({j \in opens : j < i}) >=
                  Cardinality({j \in closes : j <= i})

\* A pattern that has no tree, because its text does not compile
NoPattern == Alt(<<>>)

Ws == Set(PyWhitespace)

\* detect_format's code_patterns: the text of each pattern and its tree.
\* The first text never closes its group.
code_patterns ==
    << [text |-> <<"^", "\\", "s", "*", "(", "d", "e", "f", " ", "|", "c", "l", "a", "s", "s", " ",
        "|", "f", "u", "n", "c", "t", "i", "o", "n", " ", "|", "i", "m", "p", "o", "r", "t", " ",
        "|", "f", "r", "o", "m", " ", "|", "#", "i", "n", "c", "l", "u", "d", "e", " ", "|", "p",
        "a", "c", "k", "a", "g", "e", " ", "|", "f", "u", "n", "c", " ">>,
        re |-> NoPattern],
       [text |-> <<"^", "\\", "s", "*", "(", "p", "u", "b", "l", "i", "c", " ", "|", "p", "r", "i",
           "v", "a", "t", "e", " ", "|", "p", "r", "o", "t", "e", "c", "t", "e", "d", " ", "|", "v",
           "o", "i", "d", " ", "|", "i", "n", "t", " ", "|", "s", "t", "r", "i", "n", "g", " ", "|",
           "v", "a", "r", " ", "|", "l", "e", "t", " ", "|", "c", "o", "n", "s", "t", " ", ")">>,
        re |-> Cat(<<Bol, Star(Ws),
                     Alt(<<Str(<<"p", "u", "b", "l", "i", "c", " ">>), Str(<<"p", "r", "i", "v",
                         "a", "t", "e", " ">>), Str(<<"p", "r", "o", "t", "e", "c", "t", "e", "d",
                         " ">>),
                           Str(<<"v", "o", "i", "d", " ">>), Str(<<"i", "n", "t", " ">>), Str(<<"s",
                               "t", "r", "i", "n", "g", " ">>),
                           Str(<<"v", "a", "r", " ">>), Str(<<"l", "e", "t", " ">>), Str(<<"c", "o",
                               "n", "s", "t", " ">>)>>)>>)],
       [text |-> <<"^", "\\", "s", "*", "<", "\\", "?", "p", "h", "p">>,
        re |-> Cat(<<Bol, Star(Ws), Str(<<"<", "?", "p", "h", "p">>)>>)],
       [text |-> <<"^", "\\", "s", "*", "<", "(", "!", "D", "O", "C", "T", "Y", "P", "E", " ", "|",
           "h", "t", "m", "l", "|", "h", "e", "a", "d", "|", "b", "o", "d", "y", ")">>,
        re |-> Cat(<<Bol, Star(Ws), Lit("<"),
                     Alt(<<Str(<<"!", "D", "O", "C", "T", "Y", "P", "E", " ">>), Str(<<"h", "t",
                         "m", "l">>), Str(<<"h", "e", "a", "d">>),
                           Str(<<"b", "o", "d", "y">>)>>)>>)],
       [text |-> <<"^", "\\", "s", "*", "(", "i", "m", "p", "o", "r", "t", "|", "e", "x", "p", "o",
           "r", "t", ")", "\\", "s", "+">>,
        re |-> Cat(<<Bol, Star(Ws), Alt(<<Str(<<"i", "m", "p", "o", "r", "t">>), Str(<<"e", "x",
            "p", "o", "r", "t">>)>>),
                     Plus(Ws)>>)] >>

\* detect_format's md_patterns
md_patterns ==
    << [text |-> <<"^", "#", "{", "1", ",", "6", "}", "\\", "s", "+">>,
        re |-> Cat(<<Bol, Rep(Lit("#"), 1, 6), Plus(Ws)>>)],
       [text |-> <<"^", "\\", "*", "\\", "*", ".", "*", "\\", "*", "\\", "*">>,
        re |-> Cat(<<Bol, Str(<<"*", "*">>), Star(Dot), Str(<<"*", "*">>)>>)],
       [text |-> <<"^", "\\", "[", ".", "*", "\\", "]", "\\", "(", ".", "*", "\\", ")">>,
        re |-> Cat(<<Bol, Lit("["), Star(Dot), Lit("]"), Lit("("), Star(Dot),
                     Lit(")")>>)],
       [text |-> <<"^", BQ, BQ, BQ>>,
        re |-> Cat(<<Bol, Str(<<BQ, BQ, BQ>>)>>)],
       [text |-> <<"^", "[", "-", "*", "+", "]", "\\", "s", "+">>,
        re |-> Cat(<<Bol, Set({"-", "*", "+"}), Plus(Ws)>>)],
       [text |-> <<"^", "\\", "d", "+", "\\", ".", "\\", "s", "+">>,
        re |-> Cat(<<Bol, Plus(Set(Digits)), Lit("."), Plus(Ws)>>)] >>

\* The first pattern of ps, in order, that re.match either cannot compile or
\* matches at the start of s; 0 when every pattern compiles and none matches
FirstStop(ps, s, fl) ==
    LET stops == {k \in 1..Len(ps) :
                    ~re_compiles(ps[k].text) \/ re_match(ps[k].re, s, fl)}
    IN  IF stops = {} THEN 0 ELSE Min(stops)

\* detect_format after the check for JSON: the code patterns have stopped at
\* the pattern stop (0: at none), then the markdown patterns are counted
Classified(s, stop) ==
    IF stop # 0 /\ ~re_compiles(code_patterns[stop].text) THEN Raised("re.error")
    ELSE IF stop # 0 THEN Returned(CODE)
    ELSE IF \E k \in 1..Len(md_patterns) : ~re_compiles(md_patterns[k].text)
    THEN Raised("re.error")
    ELSE IF Cardinality({k \in 1..Len(md_patterns) :
                           re_search(md_patterns[k].re, s, MULTILINE)}) >= 2
    THEN Returned(MARKDOWN)
    ELSE Returned(TEXT)

\* detect_format for the stripped content s
Detected(s) ==
    IF (StartsWith(s, <<"{">>) \/ StartsWith(s, <<"[">>)) /\ json_loads(s).ok
    THEN Returned(JSON)
    ELSE Classified(s, FirstStop(code_patterns, s, MULTILINE_IGNORECASE))

\* detect_format(content)
detect_format(c) == Detected(Strip(c))

------------------------------------------------------------------------
\* Measures of a text that the scorers share

\* The length of the run of characters outside C that starts at position i
RunLenNot(s, C, i) ==
    Min({k \in 0..(Len(s) + 1 - i) : i + k > Len(s) \/ s[i + k] \in C})

\* s.split('\n'): the positions where its lines start, and the line at one
LineStarts(s) == {1} \cup {i + 1 : i \in {j \in 1..Len(s) : s[j] = "\n"}}
Line(s, a) == Slice(s, a, a + RunLenNot(s, {"\n"}, a))
NumLines(s) == Cardinality(LineStarts(s))

\* s.split(): the positions where its words start, and the word at one
WordStarts(s) ==
    {i \in 1..Len(s) : s[i] \notin PyWhitespace /\ (i = 1 \/ s[i - 1] \in PyWhitespace)}
WordAt(s, i) == Slice(s, i, i + RunLenNot(s, PyWhitespace, i))
NumWords(s) == Cardinality(WordStarts(s))

\* s.split('\n\n'): the positions where its paragraphs start, and the number
\* of words of the paragraph at one (len(p.split()))
ParagraphStarts(s) == {1} \cup {i + 2 : i \in OccurrencesRepeated(s, "\n", 2)}
NumParagraphs(s) == Cardinality(ParagraphStarts(s))
ParagraphWords(s, a) ==
    LET seps == {i \in OccurrencesRepeated(s, "\n", 2) : i >= a}
        e == IF seps = {} THEN Len(s) + 1 ELSE Min(seps)
    IN  Cardinality({i \in WordStarts(s) : i >= a /\ i < e})

\* round(n / d, 3) in thousandths, for n >= 0 and d > 0: Python rounds the
\* quotient to the nearest thousandth, and a quotient exactly halfway to the
\* even one
Round3(n, d) ==
    LET q == (1000 * n) \div d
        r == (1000 * n) % d
    IN  IF 2 * r < d THEN q
        ELSE IF 2 * r > d THEN q + 1
        ELSE IF q % 2 = 0 THEN q ELSE q + 1

\* round(n / d, 3) where the code computes the quotient in doubles that are
\* not exact.  The doubles are not modelled: when the exact quotient lies
\* halfway between two thousandths, the double lies just below or just above
\* it, and round goes the way the double lies.  Which way that is for the
\* value computed at a site (a place in the code) for a content is given by
\* halfway_up, which holds the <<site, content>> pairs that go up.
Round3Float(n, d, site, c) ==
    LET q == (1000 * n) \div d
        r == (1000 * n) % d
    IN  IF 2 * r < d THEN q
        ELSE IF 2 * r > d THEN q + 1
        ELSE IF <<site, c>> \in halfway_up THEN q + 1 ELSE q

\* The first n elements of a list: xs[:n]
Prefix(xs, n) == SubSeq(xs, 1, Min({n, Len(xs)}))

\* The number of TRUE entries of a list of booleans
CountTrue(bs) == Cardinality({k \in 1..Len(bs) : bs[k]})

\* A feedback string is the list of the messages that "; ".join makes it
\* from; a message is its fixed text and the values formatted into it
Msg(text, args) == <<text, args>>
\* "; ".join(feedback) if feedback else marker
Feedback(msgs, marker) == IF Len(msgs) = 0 THEN <<Msg(marker, <<>>)>> ELSE msgs
\* A list with x when the condition holds: the feedback.append(x) under an if
When(cond, x) == IF cond THEN <<x>> ELSE <<>>

RECURSIVE Deducted(_, _)
\* A faulty variant of Deducted: the last penalty is added to the score
Deducted_added(penalties, k) ==
    IF k = 0 THEN 0 ELSE Deducted(penalties, k - 1) - penalties[k][1]

\* What the first k of the penalties <<amount, message>> take off a score
Deducted(penalties, k) ==
    IF k = 0 THEN 0 ELSE Deducted(penalties, k - 1) + penalties[k][1]

\* What a scorer that starts from 1 and takes penalties off returns:
\* max(0.0, score) and the messages joined, or the marker when there is none
Penalised(penalties, marker) ==
    <<Max({0, 1000 - Deducted(penalties, Len(penalties))}),
      Feedback([k \in 1..Len(penalties) |-> penalties[k][2]], marker)>>

------------------------------------------------------------------------
\* The dimension scorers.  Each returns <<score, feedback>>.

required_fields == <<<<"i", "d">>, <<"n", "a", "m", "e">>, <<"d", "a", "t", "a">>, <<"v", "a", "l",
    "u", "e">>, <<"t", "y", "p", "e">>>>

re_header == Cat(<<Bol, Rep(Lit("#"), 1, 6), Plus(Ws)>>)
re_list == Cat(<<Bol, Set({"-", "*", "+"}), Plus(Ws)>>)
re_link == Cat(<<Lit("["), Star(Dot), Lit("]"), Lit("("), Star(Dot), Lit(")")>>)
re_functions == Alt(<<Str(<<"d", "e", "f", " ">>), Str(<<"f", "u", "n", "c", "t", "i", "o", "n",
    " ">>), Str(<<"f", "u", "n", "c", " ">>)>>)
re_comments == Alt(<<Lit("#"), Str(<<"/", "/">>), Str(<<"/", "*">>), Str(<<"*", "/">>)>>)
re_returns == Alt(<<Str(<<"r", "e", "t", "u", "r", "n">>), Str(<<"y", "i", "e", "l", "d">>)>>)
re_sentence_ends == Plus(Set({".", "!", "?"}))

\* The names whose check failed, in the order of the dict
Missing(names, present) ==
    LET idx == SelectSeq([k \in 1..Len(names) |-> k],
                         LAMBDA k : ~present[k])
    IN  [j \in 1..Len(idx) |-> names[idx[j]]]

\* The required fields that are keys of a dict: f in data
HasFields(keys) ==
    [k \in 1..Len(required_fields) |->
        \E j \in 1..Len(keys) : keys[j] = required_fields[k]]

\* score_completeness for a dict, from the required fields that are present
FieldsFound(present) ==
    <<Round3(CountTrue(present), Len(required_fields)),
      Feedback(When(CountTrue(present) < Len(required_fields),
                    Msg("Missing common fields: ",
                        Prefix(Missing(required_fields, present), 3))),
               "Complete")>>

\* score_completeness for JSON, from what json.loads gives
JsonCompleteness(r) ==
    IF ~r.ok THEN <<0, <<Msg("Invalid JSON structure", <<>>)>>>>
    ELSE IF IsDict(r.v) THEN FieldsFound(HasFields(r.v[2]))
    ELSE IF IsList(r.v)
    THEN IF Len(r.v[2]) > 0
         THEN <<1000, Feedback(<<>>, "Complete")>>
         ELSE <<0, <<Msg("Empty array", <<>>)>>>>
    ELSE <<500, <<Msg("JSON structure is minimal", <<>>)>>>>

\* score_completeness for markdown and code, from the named checks of the
\* dict (elements, checks) and their outcomes
Checked(names, present) ==
    <<Round3(CountTrue(present), Len(names)),
      Feedback(When(Len(Missing(names, present)) > 0,
                    Msg("Consider adding: ", Prefix(Missing(names, present), 3))),
               "Complete")>>

\* score_completeness for text, from its counts.  The sum word_score +
\* sentence_score + paragraph_score is taken in hundredths.
TextCompleteness(words, sentences, paragraphs) ==
    <<Round3(Min({100, words}) + 20 * Min({5, sentences}) + 50 * Min({2, paragraphs}),
             300),
      Feedback(When(words < 50,
                    Msg("Content seems brief, consider expanding", <<>>)),
               "Complete")>>

\* score_completeness(content, format_type)
score_completeness(c, f) ==
    IF f = JSON THEN JsonCompleteness(json_loads(c))
    ELSE IF f = MARKDOWN
    THEN Checked(<<"header", "paragraph", "list", "link", "code">>,
                 << re_search(re_header, c, MULTILINE),
                    Contains(c, <<"\n", "\n">>),
                    re_search(re_list, c, MULTILINE),
                    re_search(re_link, c, NoFlags),
                    Contains(c, <<BQ, BQ, BQ>>) >>)
    ELSE IF f = CODE
    THEN Checked(<<"structure", "functions", "comments", "returns">>,
                 << NumLines(c) > 5,
                    re_search(re_functions, c, NoFlags),
                    re_search(re_comments, c, NoFlags),
                    re_search(re_returns, c, NoFlags) >>)
    ELSE TextCompleteness(NumWords(c),
                          re_count(re_sentence_ends, c, NoFlags) + 1,
                          NumParagraphs(c))

re_header_no_space == Cat(<<Bol, Rep(Lit("#"), 1, 6), NotSet(PyWhitespace \cup {"#"})>>)
re_empty_link == Cat(<<Lit("["), Star(NotSet({"]"})), Lit("]"), Lit("("), Star(Ws), Lit(")")>>)
re_sentence_end == Set({".", "!", "?"})
re_proper_ending == Cat(<<Set({".", "!", "?"}), Plus(Ws), Set(UpperCase)>>)

\* The indentation and trailing-space checks of score_format_compliance for
\* code
CodeFormatPenalties(c) ==
    LET \* the lines the indentation loop does not skip
        seen == {a \in LineStarts(c) :
                   ~(Len(Line(c, a)) > 0 /\ c[a] \notin PyWhitespace)}
        spaces == \E a \in seen : StartsWith(Line(c, a), <<" ", " ", " ", " ">>)
        tabs == \E a \in seen :
                   /\ ~StartsWith(Line(c, a), <<" ", " ", " ", " ">>)
                   /\ StartsWith(Line(c, a), <<"\t">>)
        trailing == Cardinality({a \in LineStarts(c) :
                        /\ Len(Line(c, a)) > 0
                        /\ Line(c, a)[Len(Line(c, a))] = " "})
    IN  When(spaces /\ tabs, <<200, Msg("Mixed tabs and spaces", <<>>)>>)
        \o When(10 * trailing > NumLines(c),
                <<100, Msg("Trailing whitespace detected", <<>>)>>)

\* The sentence check of score_format_compliance for text, from its counts
EndingPenalties(sentences, proper_endings) ==
    When(sentences > 1 /\ 2 * proper_endings < sentences,
         <<100, Msg("Inconsistent sentence endings", <<>>)>>)

\* score_format_compliance(content, format_type)
score_format_compliance(c, f) ==
    Penalised(
        IF f = JSON
        THEN IF json_loads(c).ok
             THEN When(Contains(c, <<"\n">>) /\ ~StartsWith(c, <<"{", "\n">>),
                       <<100, Msg("Consider using consistent formatting", <<>>)>>)
             ELSE <<<<1000, Msg("JSON parse error: ", <<>>)>>>>
        ELSE IF f = MARKDOWN
        THEN When(re_search(re_header_no_space, c, MULTILINE),
                  <<200, Msg("Headers need space after #", <<>>)>>)
             \o When(CountRepeated(c, BQ, 3) % 2 # 0,
                     <<300, Msg("Unclosed code block", <<>>)>>)
             \o When(re_search(re_empty_link, c, NoFlags),
                     <<100, Msg("Empty links found", <<>>)>>)
        ELSE IF f = CODE THEN CodeFormatPenalties(c)
        ELSE When(Contains(c, <<" ", " ">>),
                  <<100, Msg("Multiple consecutive spaces", <<>>)>>)
             \o EndingPenalties(re_count(re_sentence_end, c, NoFlags) + 1,
                                re_count(re_proper_ending, c, NoFlags)),
        "Format compliant")

RECURSIVE get_dict_depth(_, _)

\* get_dict_depth(d, depth)
get_dict_depth(d, depth) ==
    IF ~IsDict(d) \/ Len(d[2]) = 0 THEN depth
    ELSE Max({get_dict_depth(d[3][k], depth + 1) : k \in 1..Len(d[3])})

re_class == Str(<<"c", "l", "a", "s", "s", " ">>)
re_variables ==
    Cat(<<WordBoundary,
          Alt(<<Str(<<"v", "a", "r">>), Str(<<"l", "e", "t">>), Str(<<"c", "o", "n", "s", "t">>),
              Str(<<"i", "n", "t">>), Str(<<"s", "t", "r", "i", "n", "g">>),
                Str(<<"f", "l", "o", "a", "t">>)>>),
          Plus(Ws), Plus(Set(WordChars))>>)
re_image == Cat(<<Lit("!"), Lit("["), Star(Dot), Lit("]"), Lit("("), Star(Dot), Lit(")")>>)

\* score_coverage for JSON, from what json.loads gives
JsonCoverage(r) ==
    <<IF ~r.ok THEN 0
      ELSE IF IsDict(r.v)
      \* min(1.0, key_count / 10 + depth / 5) / 2
      THEN Round3(Min({10, Len(r.v[2]) + 2 * get_dict_depth(r.v, 0)}), 20)
      ELSE IF IsList(r.v) THEN Round3(Min({10, Len(r.v[2])}), 10)
      ELSE 500,
      Feedback(<<>>, "Good coverage")>>

\* score_coverage for code, from its counts.  The total functions +
\* classes * 2 + variables / 5 is taken in fifths.
CodeCoverage(functions, classes, variables) ==
    <<Round3(Min({50, 5 * functions + 10 * classes + variables}), 50),
      Feedback(When(functions = 0 /\ classes = 0,
                    Msg("No functions or classes found", <<>>)),
               "Good coverage")>>

\* score_coverage for markdown, from its counts.  The total sections +
\* links / 2 + images + code_blocks is taken in halves.
MarkdownCoverage(sections, links, images, code_blocks) ==
    <<Round3(Min({16, 2 * sections + links + 2 * images + 2 * code_blocks}), 16),
      Feedback(<<>>, "Good coverage")>>

\* score_coverage for text, from the number n of its words and of the
\* distinct ones: (unique_words / max(1, n) + min(1.0, n / 200)) / 2
TextCoverage(unique_words, n, c) ==
    <<Round3Float(200 * unique_words + Max({1, n}) * Min({200, n}), 400 * Max({1, n}),
                  "coverage", c),
      Feedback(When(10 * unique_words < 3 * Max({1, n}),
                    Msg("Low vocabulary diversity", <<>>)),
               "Good coverage")>>

\* len(set(words)) for the words of lc
UniqueWords(lc) == Cardinality({WordAt(lc, i) : i \in WordStarts(lc)})

\* score_coverage(content, format_type)
score_coverage(c, f) ==
    IF f = JSON THEN JsonCoverage(json_loads(c))
    ELSE IF f = CODE
    THEN CodeCoverage(re_count(re_functions, c, NoFlags),
                      re_count(re_class, c, NoFlags),
                      re_count(re_variables, c, NoFlags))
    ELSE IF f = MARKDOWN
    THEN MarkdownCoverage(re_count(re_header, c, MULTILINE),
                          re_count(re_link, c, NoFlags),
                          re_count(re_image, c, NoFlags),
                          CountRepeated(c, BQ, 3) \div 2)
    ELSE TextCoverage(UniqueWords(Lower(c)), NumWords(c), c)

re_comment_line ==
    Cat(<<Bol, Star(Ws), Alt(<<Lit("#"), Str(<<"/", "/">>), Str(<<"/", "*">>), Str(<<"*", "/">>)>>)>>)
re_abbreviation == Cat(<<WordBoundary, Rep(Set(UpperCase), 2, -1), WordBoundary>>)

\* The penalties of score_clarity, from its counts.  The products
\* len(lines) * 0.1 and total_lines * 0.1 are compared with whole numbers; for
\* every length up to 1000 the float product of a multiple of ten is the
\* exact tenth, so the comparisons are those of the exact values.
ClarityPenalties(f, lines, chars, blank_lines, long_paras, comment_lines, abbreviations) ==
    When(chars > 100 * lines,
         <<200, Msg("Long lines reduce readability", <<>>)>>)
    \o When(10 * blank_lines < lines,
            <<100, Msg("Add more paragraph breaks", <<>>)>>)
    \o When(long_paras > 0,
            <<100 * long_paras, Msg("Break up long paragraphs", <<>>)>>)
    \o When(f = CODE /\ lines - blank_lines > 10
               /\ 10 * comment_lines < lines - blank_lines,
            <<200, Msg("Add more code comments", <<>>)>>)
    \o When(abbreviations > 10,
            <<0, Msg("Many abbreviations - consider defining them", <<>>)>>)

\* sum(1 for l in lines if not l.strip())
BlankLines(c) ==
    Cardinality({a \in LineStarts(c) :
                    \A k \in 1..Len(Line(c, a)) : Line(c, a)[k] \in PyWhitespace})

\* score_clarity(content, format_type)
score_clarity(c, f) ==
    Penalised(
        ClarityPenalties(f, NumLines(c), Len(c) - CountChar(c, "\n"), BlankLines(c),
                         Cardinality({a \in ParagraphStarts(c) : ParagraphWords(c, a) > 100}),
                         re_count(re_comment_line, c, MULTILINE),
                         re_count(re_abbreviation, c, NoFlags)),
        "Clear and readable")

RECURSIVE count_nulls(_), NullsAmong(_, _, _)

\* count_nulls(data)
count_nulls(data) ==
    IF IsNone(data) THEN 1
    ELSE IF IsDict(data) THEN NullsAmong(data[3], TRUE, Len(data[3]))
    ELSE IF IsList(data) THEN NullsAmong(data[2], FALSE, Len(data[2]))
    ELSE 0

\* The count that the loop of count_nulls reaches over the first k values of
\* a dict (an empty list counts) or items of a list (an empty dict counts)
NullsAmong(xs, inDict, k) ==
    IF k = 0 THEN 0
    ELSE NullsAmong(xs, inDict, k - 1)
         + (IF \/ IsNone(xs[k])
               \/ IsEmptyStr(xs[k])
               \/ (IF inDict THEN IsEmptyList(xs[k]) ELSE IsEmptyDict(xs[k]))
            THEN 1
            ELSE IF IsDict(xs[k]) \/ IsList(xs[k]) THEN count_nulls(xs[k])
            ELSE 0)

re_empty_block == Cat(<<Lit("{"), Star(Ws), Lit("}")>>)
re_import == Cat(<<Str(<<"i", "m", "p", "o", "r", "t">>), Plus(Ws), Plus(Set(WordChars))>>)
re_broken_link == Cat(<<Lit("]"), Lit("("), Star(NotSet({")"})), Eol>>)
re_typos ==
    Cat(<<WordBoundary, Alt(<<Str(<<"t", "e", "h">>), Str(<<"a", "d", "n">>), Str(<<"t", "a", "h",
        "t">>), Str(<<"w", "i", "h", "t">>)>>),
          WordBoundary>>)

RECURSIVE FindAll(_, _, _, _, _)

\* The positions where the matches that re.findall finds from position i on
\* start, in order
FindAll(p, s, fl, starts, i) ==
    LET later == {j \in starts : j >= i}
    IN  IF later = {} THEN <<>>
        ELSE <<Min(later)>> \o FindAll(p, s, fl, starts, Match(<<p>>, s, Min(later), fl))

\* The name that the group of import\s+(\w+) captures in the match at i
NameAt(c, i) ==
    Slice(c, i + 6 + RunLen(c, PyWhitespace, i + 6),
          i + 6 + RunLen(c, PyWhitespace, i + 6)
            + RunLen(c, WordChars, i + 6 + RunLen(c, PyWhitespace, i + 6)))

\* The names captured in the matches at the positions at
NamesAt(c, at) == [k \in 1..Len(at) |-> NameAt(c, at[k])]

\* re.findall(r'import\s+(\w+)', content): the names the group captures
ImportedNames(c) ==
    NamesAt(c, FindAll(re_import, c, NoFlags, MatchStarts(re_import, c, NoFlags), 1))

\* imp not in content[content.find(imp) + len(imp):]
NotUsedAgain(c, imp) ==
    ~\E j \in (Find(c, imp) + Len(imp))..(Len(c) + 1) : OccursAt(c, imp, j)

\* sum(1 for i in range(len(words)-1) if words[i] == words[i+1]), for the
\* words of lc
Repeated(lc) ==
    LET starts == WordStarts(lc)
    IN  Cardinality({i \in starts :
            /\ \E j \in starts : j > i
            /\ WordAt(lc, i) = WordAt(lc, Min({j \in starts : j > i}))})

\* The penalty of score_validity for the null and empty values of JSON
NullPenalties(null_count) ==
    When(null_count > 0,
         <<100 * Min({null_count, 5}), Msg("Found null/empty values", <<null_count>>)>>)

\* The penalties of score_validity for JSON, from what json.loads gives
JsonValidity(r) ==
    IF ~r.ok THEN <<<<1000, Msg("Invalid JSON: ", <<>>)>>>>
    ELSE NullPenalties(count_nulls(r.v))

\* The penalties of score_validity for the imports not used again
UnusedPenalties(unused) ==
    [k \in 1..Len(unused) |-> <<50, Msg("Potentially unused: ", <<unused[k]>>)>>]

\* The imports[:5] that are not used again
Unused(c, imports) == SelectSeq(imports, LAMBDA imp : NotUsedAgain(c, imp))

\* score_validity(content, format_type)
score_validity(c, f) ==
    Penalised(
        IF f = JSON THEN JsonValidity(json_loads(c))
        ELSE IF f = CODE
        THEN When(CountChar(c, "(") + CountChar(c, "[") + CountChar(c, "{")
                    # CountChar(c, ")") + CountChar(c, "]") + CountChar(c, "}"),
                  <<300, Msg("Mismatched brackets", <<>>)>>)
             \o When(re_search(re_empty_block, c, NoFlags),
                     <<100, Msg("Empty code blocks", <<>>)>>)
             \o UnusedPenalties(Unused(c, Prefix(ImportedNames(c), 5)))
        ELSE IF f = MARKDOWN
        THEN When(CountRepeated(c, "*", 2) % 2 # 0,
                  <<200, Msg("Unclosed bold formatting", <<>>)>>)
             \o When(re_search(re_broken_link, c, MULTILINE),
                     <<200, Msg("Broken link syntax", <<>>)>>)
        ELSE When(Repeated(Lower(c)) > 2,
                  <<100, Msg("Repeated words found", <<>>)>>)
             \o When(re_search(re_typos, Lower(c), NoFlags),
                     <<100, Msg("Possible typos detected", <<>>)>>),
        "Valid")

------------------------------------------------------------------------
\* The aggregator

\* A faulty variant of get_quality_rating: the comparison is strict
get_quality_rating_strict(sc) ==
    LET hits == {k \in 1..Len(QUALITY_RATINGS) : sc > QUALITY_RATINGS[k][1]}
    IN  IF hits = {} THEN "Poor" ELSE QUALITY_RATINGS[Min(hits)][2]

\* get_quality_rating(score): the first rating whose threshold the score
\* reaches, in the order of the table
get_quality_rating(sc) ==
    LET hits == {k \in 1..Len(QUALITY_RATINGS) : sc >= QUALITY_RATINGS[k][1]}
    IN  IF hits = {} THEN "Poor" ELSE QUALITY_RATINGS[Min(hits)][2]

\* score_submission's dimensions, in the order of the dict
Dimensions == <<"completeness", "format_compliance", "coverage", "clarity", "validity">>

\* The scorer that score_submission's dict gives a dimension
Scorer(dim, c, f) ==
    CASE dim = "completeness" -> score_completeness(c, f)
      [] dim = "format_compliance" -> score_format_compliance(c, f)
      [] dim = "coverage" -> score_coverage(c, f)
      [] dim = "clarity" -> score_clarity(c, f)
      [] dim = "validity" -> score_validity(c, f)

\* A faulty variant of AllClear: the marker of the last dimension is forgotten
AllClear_without_valid ==
    { <<Msg("Complete", <<>>)>>, <<Msg("Format compliant", <<>>)>>,
      <<Msg("Good coverage", <<>>)>>, <<Msg("Clear and readable", <<>>)>> }

\* The feedback strings score_submission keeps out of the feedback list
AllClear ==
    { <<Msg("Complete", <<>>)>>, <<Msg("Format compliant", <<>>)>>,
      <<Msg("Good coverage", <<>>)>>, <<Msg("Clear and readable", <<>>)>>,
      <<Msg("Valid", <<>>)>> }

\* The entries "dim: feedback" of the feedback list, each the pair
\* <<dim, feedback>>, from what the scorers return in the order of the dict
FeedbackList(results) ==
    LET kept == SelectSeq([k \in 1..Len(Dimensions) |-> k],
                          LAMBDA k : Len(results[k][2]) > 0 /\ results[k][2] \notin AllClear)
    IN  [j \in 1..Len(kept) |-> <<Dimensions[kept[j]], results[kept[j]][2]>>]

RECURSIVE WeightedSum(_, _)
\* weighted_sum after the first k dimensions, in units of 0.00001
WeightedSum(results, k) ==
    IF k = 0 THEN 0
    ELSE WeightedSum(results, k - 1) + results[k][1] * DIMENSION_WEIGHTS[Dimensions[k]]

\* The ScoringResult that score_submission builds
ScoringResult(weighted_score, scores, feedback_list, pass_threshold, f) ==
    [weighted_score |-> weighted_score,
     quality_rating |-> get_quality_rating(weighted_score),
     scores |-> scores,
     feedback |-> IF Len(feedback_list) > 0 THEN feedback_list
                  ELSE <<<<"All dimensions satisfactory", <<>>>>>>,
     pass_threshold |-> weighted_score >= pass_threshold,
     format_detected |-> f]

\* score_submission after its loop, from what the scorers have returned in
\* the order of the dict
Aggregated(c, pass_threshold, f, results) ==
    ScoringResult(Round3Float(WeightedSum(results, Len(Dimensions)), 100000,
                              "weighted_sum", c),
                  [dim \in {Dimensions[k] : k \in 1..Len(Dimensions)} |->
                      results[CHOOSE k \in 1..Len(Dimensions) : Dimensions[k] = dim][1]],
                  FeedbackList(results), pass_threshold, f)

\* score_submission after detect_format: its exception propagates, or the
\* five scorers are called with the format it has returned
Scoring(c, pass_threshold, detected) ==
    IF detected.exc # "none" THEN Raised(detected.exc)
    ELSE Returned(Aggregated(c, pass_threshold, detected.v,
                             << score_completeness(c, detected.v),
                                score_format_compliance(c, detected.v),
                                score_coverage(c, detected.v),
                                score_clarity(c, detected.v),
                                score_validity(c, detected.v) >>))

\* score_submission(content, pass_threshold): the ScoringResult, or the
\* exception that detect_format raises
score_submission(c, pass_threshold) == Scoring(c, pass_threshold, detect_format(c))

\* The list comprehension of score_batch over the outcomes of its calls: it
\* stops at the first one that raises
Collected(each) ==
    IF \E k \in 1..Len(each) : each[k].exc # "none"
    THEN Raised(each[Min({k \in 1..Len(each) : each[k].exc # "none"})].exc)
    ELSE Returned([k \in 1..Len(each) |-> each[k].v])

\* score_batch(submissions, pass_threshold)
score_batch(subs, pass_threshold) ==
    Collected([k \in 1..Len(subs) |-> score_submission(subs[k], pass_threshold)])

------------------------------------------------------------------------
\* The inputs

\* DEFAULT_PASS_THRESHOLD, in thousandths
DEFAULT_PASS_THRESHOLD == 600

\* The largest number of keys, nesting depth and null values of the
\* generated payloads, of words of the generated texts, of submissions of a
\* batch and of calls of one caller
MaxKeys == 10
MaxDepth == 5
MaxNulls == 6
MaxWords == 101
MaxBatch == 2
MaxCalls == 3

\* piece repeated n times
Repeat(piece, n) ==
    [k \in 1..(n * Len(piece)) |-> piece[((k - 1) % Len(piece)) + 1]]

\* The lists xs[1] sep xs[2] sep ... joined
RECURSIVE Join(_, _)
Join(xs, sep) ==
    IF Len(xs) = 0 THEN <<>>
    ELSE IF Len(xs) = 1 THEN xs[1]
    ELSE xs[1] \o sep \o Join(Tail(xs), sep)

DigitSeq == <<"0", "1", "2", "3", "4", "5", "6", "7", "8", "9">>
\* str(n), for n < 100
Decimal(n) ==
    IF n < 10 THEN <<DigitSeq[n + 1]>>
    ELSE <<DigitSeq[(n \div 10) + 1], DigitSeq[(n % 10) + 1]>>

\* The k-th key of the generated payloads: the five common fields first
KeyName(k) == IF k <= Len(required_fields) THEN required_fields[k]
              ELSE <<"k">> \o Decimal(k)

Quoted(cs) == <<"\"">> \o cs \o <<"\"">>

\* json.dumps of a dict with the given keys and (already dumped) values
DumpDict(keys, vals) ==
    <<"{">> \o Join([k \in 1..Len(keys) |-> Quoted(keys[k]) \o <<":", " ">> \o vals[k]], <<",", " ">>)
            \o <<"}">>
DumpList(vals) == <<"[">> \o Join(vals, <<",", " ">>) \o <<"]">>

\* {"data": {"data": ... }}: d dicts inside each other around an inner value
RECURSIVE Nested(_, _)
Nested(d, inner) ==
    IF d = 0 THEN inner ELSE DumpDict(<<<<"d", "a", "t", "a">>>>, <<Nested(d - 1, inner)>>)

\* A payload with k keys, the first of which holds d - 1 nested dicts
PayloadKD(k, d) ==
    DumpDict([j \in 1..k |-> KeyName(j)],
             [j \in 1..k |-> IF j = 1 THEN Nested(d - 1, <<"1">>) ELSE <<"1">>])

\* A payload whose n values are null
PayloadNulls(n, asDict) ==
    IF asDict THEN DumpDict([j \in 1..n |-> KeyName(j)], [j \in 1..n |-> <<"n", "u", "l", "l">>])
    ELSE DumpList([j \in 1..n |-> <<"n", "u", "l", "l">>])

JsonContents ==
    {PayloadKD(k, d) : k \in 1..MaxKeys, d \in 1..MaxDepth}
    \cup {PayloadNulls(n, b) : n \in 0..MaxNulls, b \in BOOLEAN}
    \cup { <<"{", "\n", "\"", "i", "d", "\"", ":", " ", "1", ",", " ", "\"", "n", "a", "m", "e",
        "\"", ":", " ", "1", ",", " ", "\"", "d", "a", "t", "a", "\"", ":", " ", "1", ",", " ",
        "\"", "v", "a", "l", "u", "e", "\"", ":", " ", "1", ",", " ", "\"", "t", "y", "p", "e",
        "\"", ":", " ", "1", "}", "\n", "\n">>,
           <<"{", "\"", "i", "d", "\"", ":", " ", "\"", "1", "\"", ",", " ", "\"", "n", "a", "m",
               "e", "\"", ":", " ", "\"", "T", "e", "s", "t", "\"", ",", " ", "\"", "v", "a", "l",
               "u", "e", "\"", ":", " ", "1", "0", "0", "}">>,
           <<"{", "\"", "i", "d", "\"", ":", "\"", "1", "\"", ",", "\"", "n", "a", "m", "e", "\"",
               ":", "\"", "T", "e", "s", "t", "\"", ",", "\"", "v", "a", "l", "u", "e", "\"", ":",
               "1", "0", "0", ",", "\"", "t", "y", "p", "e", "\"", ":", "\"", "e", "x", "a", "m",
               "p", "l", "e", "\"", ",", "\"", "d", "a", "t", "a", "\"", ":", "{", "}", "}">>,
           <<"{", "\"", "k", "e", "y", "\"", ":", " ", "\"", "v", "a", "l", "u", "e", "\"", "}">>,
               <<"[", "1", ",", " ", "2", ",", " ", "3", "]">>, <<"{", "\"", "t", "e", "s", "t",
               "\"", ":", " ", "\"", "d", "a", "t", "a", "\"", "}">>,
           <<"[", "n", "u", "l", "l", ",", " ", "\"", "\"", ",", " ", "{", "}", ",", " ", "[", "]",
               ",", " ", "{", "\"", "a", "\"", ":", " ", "n", "u", "l", "l", ",", " ", "\"", "b",
               "\"", ":", " ", "\"", "\"", ",", " ", "\"", "c", "\"", ":", " ", "[", "]", ",", " ",
               "\"", "d", "\"", ":", " ", "{", "}", "}", "]">>,
           <<"{", "\n", "\"", "i", "d", "\"", ":", " ", "1", ",", "\n", "\"", "n", "a", "m", "e",
               "\"", ":", " ", "\"", "\"", "\n", "}">>, <<"{", "\"", "i", "d", "\"", ":", " ", "1",
               ",", "\n", "\"", "n", "a", "m", "e", "\"", ":", " ", "2", "}">>,
           <<" ", "{", "\"", "i", "d", "\"", ":", " ", "1", "}", " ", "\n">>, <<"\f", "{", "\"",
               "i", "d", "\"", ":", " ", "1", "}">>, <<"[", "[", "]", ",", " ", "[", "{", "}", "]",
               ",", " ", "{", "\"", "a", "\"", ":", " ", "[", "n", "u", "l", "l", "]", "}", "]">>,
           <<"{", "\"", "i", "d", "\"", ":", " ", "1", ",", " ", "\"", "i", "d", "\"", ":", " ",
               "n", "u", "l", "l", "}">> }

MalformedContents ==
    { <<"{", "b", "a", "d">>, <<"[">>, <<"{", "\"", "i", "d", "\"", ":", " ", "1", ",", "}">>,
        <<"[", "1", ",", " ", "2">>, <<"{", "\"", "i", "d", "\"", ":", " ", "1", "}", " ", "x">>,
        <<"{", "'", "i", "d", "'", ":", " ", "1", "}">> }

TextContents ==
    {Repeat(<<"w", " ">>, n) : n \in {1, 49, 50, 100, MaxWords}}
    \cup {Repeat(Repeat(<<"w", " ">>, MaxWords) \o <<"\n", "\n">>, p) : p \in 1..3}
    \cup { <<>>, <<"a">>, <<"b">>, <<"c">>, <<"h", "e", "l", "l", "o">>, Repeat(<<"x">>, 101),
        Repeat(<<"A", "B", " ">>, 11),
           <<"a", " ", "a", " ", "a", " ", "a">>, <<"t", "e", "h", " ", "c", "a", "t">>, <<"O", "n",
               "e", ".", " ", "T", "w", "o", ".", " ", "t", "h", "r", "e", "e", ".", " ", " ", "f",
               "o", "u", "r">>,
           <<"T", "h", "i", "s", " ", "i", "s", " ", "a", " ", "s", "a", "m", "p", "l", "e", " ",
               "t", "e", "x", "t", " ", "s", "u", "b", "m", "i", "s", "s", "i", "o", "n", ".", " ",
               "I", "t", " ", "c", "o", "n", "t", "a", "i", "n", "s", " ", "m", "u", "l", "t", "i",
               "p", "l", "e", " ", "s", "e", "n", "t", "e", "n", "c", "e", "s", ".", "\n", "\n",
               "T", "h", "e", " ", "s", "e", "c", "o", "n", "d", " ", "p", "a", "r", "a", "g", "r",
               "a", "p", "h", " ", "c", "o", "n", "t", "i", "n", "u", "e", "s", " ", "t", "h", "e",
               " ", "d", "i", "s", "c", "u", "s", "s", "i", "o", "n", ".">> }

MarkdownContents ==
    { <<"#", " ", "T", "i", "t", "l", "e", "\n", "\n", "P", "a", "r", "a", "g", "r", "a", "p", "h",
        " ", "w", "i", "t", "h", " ", "*", "*", "b", "o", "l", "d", "*", "*", ".", "\n", "\n", "-",
        " ", "I", "t", "e", "m", " ", "1", "\n", "\n", "[", "l", "i", "n", "k", "]", "(", "u", "r",
        "l", ")">>,
      <<"#", " ", "S", "a", "m", "p", "l", "e", "\n", "\n", "T", "h", "i", "s", " ", "i", "s", " ",
          "*", "*", "s", "a", "m", "p", "l", "e", "*", "*", ".", "\n", "\n", "#", "#", " ", "F",
          "e", "a", "t", "u", "r", "e", "s", "\n", "\n", "-", " ", "I", "t", "e", "m", " ", "1",
          "\n", "-", " ", "I", "t", "e", "m", " ", "2", "\n", "\n", "[", "L", "e", "a", "r", "n",
          "]", "(", "h", "t", "t", "p", "s", ":", "/", "/", "x", ".", "y", ")", "\n", "\n", BQ, BQ,
          BQ, "p", "y", "t", "h", "o", "n", "\n", "d", "e", "f", " ", "h", "e", "l", "l", "o", "(",
          ")", ":", "\n", " ", " ", " ", " ", "p", "a", "s", "s", "\n", BQ, BQ, BQ, "\n">>,
      <<"#", "x", "\n", BQ, BQ, BQ, "\n", "[", "a", "]", "(", ")", "\n", "-", " ", "b">>, <<"*",
          "*", "a", "*", "*", " ", "*", "*", "\n", "1", ".", " ", "b", "\n", "[", "a", "]", "(",
          "b">>, <<"-", " ", "a", "\n", "*", " ", "b">>, <<"#", " ", "T">>,
      <<BQ, BQ, BQ, "\n", BQ, BQ, BQ, "\n", "!", "[", "i", "]", "(", "u", ")", " ", "[", "l", "]",
          "(", "v", ")", "\n", "#", " ", "s", "\n", "#", "#", " ", "t">> }

CodeContents ==
    { <<"d", "e", "f", " ", "c", "a", "l", "c", "u", "l", "a", "t", "e", "(", "x", ")", ":", "\n",
        " ", " ", " ", " ", "r", "e", "t", "u", "r", "n", " ", "x", " ", "*", " ", "2", "\n", "\n",
        "#", " ", "M", "a", "i", "n", "\n", "p", "r", "i", "n", "t", "(", "c", "a", "l", "c", "u",
        "l", "a", "t", "e", "(", "5", ")", ")">>,
      <<"d", "e", "f", " ", "h", "e", "l", "l", "o", "(", ")", ":", "\n", " ", " ", " ", " ", "p",
          "a", "s", "s">>,
      <<"p", "r", "o", "s", "e", "\n", "d", "e", "f", " ", "f", "(", ")", ":", "\n", " ", " ", " ",
          " ", "p", "a", "s", "s">>,
      <<"i", "m", "p", "o", "r", "t", " ", "o", "s", "\n", "i", "m", "p", "o", "r", "t", " ", "s",
          "y", "s", "\n", "o", "s", ".", "x", "(">>, <<"p", "u", "b", "l", "i", "c", " ", "c", "l",
          "a", "s", "s", " ", "A", " ", "{", " ", "}", "\n", " ", " ", " ", " ", "i", "n", "t", " ",
          "x", "\n", "\t", "y", " ", "\n">>,
      <<"f", "u", "n", "c", "t", "i", "o", "n", " ", "a", " ", "f", "u", "n", "c", " ", "b", " ",
          "d", "e", "f", " ", "c", " ", "c", "l", "a", "s", "s", " ", "A", " ", "c", "l", "a", "s",
          "s", " ", "B", " ", "c", "l", "a", "s", "s", " ", "C", " ", "c", "l", "a", "s", "s", " ",
          "D">>,
      <<"<", "?", "p", "h", "p", " ", "e", "c", "h", "o">>, <<"<", "h", "t", "m", "l", ">">>, <<"I",
          "m", "p", "o", "r", "t", " ", "o", "s">>, <<"v", "a", "r", " ", "x", " ", "=", " ", "1">>,
      Join([k \in 1..11 |-> <<"x", " ", "=", " ">> \o Decimal(k)], <<"\n">>),
      <<"d", "e", "f", " ", "f", "(", ")", ":", "\n">> \o Join([k \in 1..11 |-> <<" ", " ", " ",
          " ", "#", " ", "s", "t", "e", "p">>], <<"\n">>) }

Contents ==
    JsonContents \cup MalformedContents \cup TextContents
    \cup MarkdownContents \cup CodeContents

Thresholds == {0, DEFAULT_PASS_THRESHOLD, 750, 1001}

\* A payload with one of the common fields
OneField == <<"{", "\"", "i", "d", "\"", ":", " ", "1", "}">>

\* The contents of the batches and of the callers that make several calls
FewContents ==
    { OneField, <<"[", "1", ",", " ", "2", ",", " ", "3", "]">>, <<"a">>, <<"b">> }

Batches == UNION {[1..n -> FewContents] : n \in 0..MaxBatch}

------------------------------------------------------------------------
\* The caller and the calls

\* The two tables of the module as it is loaded: the weights in hundredths,
\* the rating thresholds in thousandths
WeightTable ==
    [dim \in {"completeness", "format_compliance", "coverage", "clarity", "validity"} |->
        CASE dim = "completeness" -> 30
          [] dim = "format_compliance" -> 20
          [] dim = "coverage" -> 25
          [] dim = "clarity" -> 15
          [] dim = "validity" -> 10]
RatingTable ==
    << <<900, "Excellent">>, <<800, "Very Good">>, <<700, "Good">>,
       <<600, "Satisfactory">>, <<500, "Needs Improvement">>, <<0, "Poor">> >>

NoContent == <<"\r">>

\* One call of a function of the module, with the arguments it takes
DetectCall(c) ==
    [op |-> "detect_format", content |-> c, format_type |-> "-",
     pass_threshold |-> 0, submissions |-> <<>>, score |-> 0]
ScorerCall(dim, c, f) ==
    [op |-> dim, content |-> c, format_type |-> f,
     pass_threshold |-> 0, submissions |-> <<>>, score |-> 0]
RatingCall(sc) ==
    [op |-> "get_quality_rating", content |-> NoContent, format_type |-> "-",
     pass_threshold |-> 0, submissions |-> <<>>, score |-> sc]
SubmissionCall(c, t) ==
    [op |-> "score_submission", content |-> c, format_type |-> "-",
     pass_threshold |-> t, submissions |-> <<>>, score |-> 0]
BatchCall(subs, t) ==
    [op |-> "score_batch", content |-> NoContent, format_type |-> "-",
     pass_threshold |-> t, submissions |-> subs, score |-> 0]

\* The roundings of a call that fall on a halfway case of the float
Halfways(call) ==
    IF call.op = "coverage" THEN {<<"coverage", call.content>>}
    ELSE IF call.op = "score_submission"
    THEN {"coverage", "weighted_sum"} \X {call.content}
    ELSE IF call.op = "score_batch"
    THEN {"coverage", "weighted_sum"}
         \X {call.submissions[k] : k \in 1..Len(call.submissions)}
    ELSE {}

Calls ==
    {DetectCall(c) : c \in Contents}
    \cup {ScorerCall(dim, c, f) : dim \in DOMAIN WeightTable, c \in Contents, f \in FormatType}
    \cup {RatingCall(sc) : sc \in 0..1000}
    \cup {SubmissionCall(c, t) : c \in Contents, t \in Thresholds}
    \cup {BatchCall(subs, t) : subs \in Batches, t \in {DEFAULT_PASS_THRESHOLD}}

FewCalls ==
    {DetectCall(OneField)}
    \cup {ScorerCall(dim, OneField, JSON) : dim \in DOMAIN WeightTable}
    \cup {RatingCall(DEFAULT_PASS_THRESHOLD)}
    \cup {SubmissionCall(c, DEFAULT_PASS_THRESHOLD) : c \in {OneField, <<"a">>}}
    \cup {BatchCall(<<OneField>>, DEFAULT_PASS_THRESHOLD)}

------------------------------------------------------------------------
\* The middleware (src/middleware.py): API keys and usage metering.
\*
\* USAGE_FILE holds usage[api_key][month_key]; a counter that the file does
\* not hold reads as 0 (usage.get(..., {}).get(month_key, 0)), and the model
\* keeps the counters as one function of <<api_key, month_key>> in which such
\* a counter is 0.  A missing file loads as {} and is the file of zeros.
\* json.dumps followed by json.loads gives back the counters written, so
\* _load_json returns what the last _save_json wrote.  Each read and each
\* write of the file is taken as one step.

\* The largest number of requests in flight and of calendar months
MaxRequests == 2
MaxMonths == 2

\* PLANS: the monthly limit and the rate of each plan
PLANS ==
    [plan \in {"free", "starter", "pro", "enterprise"} |->
        CASE plan = "free" -> [limit |-> 50, rate_per_min |-> 5]
          [] plan = "starter" -> [limit |-> 500, rate_per_min |-> 30]
          [] plan = "pro" -> [limit |-> 5000, rate_per_min |-> 60]
          [] plan = "enterprise" -> [limit |-> 50000, rate_per_min |-> 120]]

\* What KEYS_FILE holds: the keys that get_or_create_key has made, one of
\* them deactivated since
KeysFile ==
    [key \in {"cs_free", "cs_starter", "cs_off"} |->
        CASE key = "cs_free" -> [email |-> "a@x", plan |-> "free", active |-> TRUE]
          [] key = "cs_starter" -> [email |-> "b@x", plan |-> "starter", active |-> TRUE]
          [] key = "cs_off" -> [email |-> "c@x", plan |-> "free", active |-> FALSE]]

\* The X-API-Key headers of the requests: the keys of the file and one that
\* is not in it.  The requests modelled carry a key.
ApiKeys == DOMAIN KeysFile \cup {"cs_unknown"}

Months == 1..MaxMonths

\* The counters of a file that holds none
NoUsage == [km \in ApiKeys \X Months |-> 0]

\* PLANS.get(plan, PLANS["free"])
PlanConfig(plan) == IF plan \in DOMAIN PLANS THEN PLANS[plan] ELSE PLANS["free"]

\* validate_api_key(x_api_key), for what _load_json(USAGE_FILE) gives and
\* the month of datetime.now(): the user info, or the HTTPException
validate_api_key(x_api_key, usage, month_key) ==
    IF x_api_key = ""
    THEN Returned([plan |-> "free", email |-> "anonymous", key |-> "anonymous"])
    ELSE IF x_api_key \notin DOMAIN KeysFile THEN Raised("HTTPException 401")
    ELSE IF ~KeysFile[x_api_key].active THEN Raised("HTTPException 403")
    ELSE IF usage[<<x_api_key, month_key>>] >= PlanConfig(KeysFile[x_api_key].plan).limit
    THEN Raised("HTTPException 429")
    ELSE Returned([email |-> KeysFile[x_api_key].email,
                   active |-> KeysFile[x_api_key].active,
                   key |-> x_api_key,
                   plan |-> KeysFile[x_api_key].plan,
                   usage |-> usage[<<x_api_key, month_key>>],
                   limit |-> PlanConfig(KeysFile[x_api_key].plan).limit])

\* The dict that track_usage saves: the one it has loaded with the counter
\* of the key and the month one higher
Incremented(usage, api_key, month_key) ==
    [usage EXCEPT ![<<api_key, month_key>>] = @ + 1]

\* No request is being served and the file holds no counter
NoTraffic ==
    /\ usage_file = NoUsage
    /\ month = 1
    /\ requests = <<>>
    /\ units_due = NoUsage

\* The module as loaded: its two tables, and nothing called yet
Loaded ==
    /\ done = <<>>
    /\ DIMENSION_WEIGHTS = WeightTable
    /\ QUALITY_RATINGS = RatingTable

\* A caller that makes one call
Init ==
    /\ Loaded
    /\ \E call \in Calls :
        /\ pending = <<call>>
        /\ halfway_up \in SUBSET Halfways(call)
    /\ NoTraffic

\* A caller that makes up to MaxCalls calls, one after the other
InitRepeat ==
    /\ Loaded
    /\ \E n \in 1..MaxCalls : pending \in [1..n -> FewCalls]
    /\ halfway_up \in SUBSET {<<"weighted_sum", OneField>>}
    /\ NoTraffic

\* What the log keeps of a finished call
Finished(call, outcome) == [call |-> call, exc |-> outcome.exc, v |-> outcome.v]

Calling(op) == pending # <<>> /\ Head(pending).op = op

Finish(outcome) ==
    /\ done' = Append(done, Finished(Head(pending), outcome))
    /\ pending' = Tail(pending)

Call_detect_format ==
    /\ Calling("detect_format")
    /\ Finish(detect_format(Head(pending).content))
    /\ UNCHANGED <<halfway_up, DIMENSION_WEIGHTS, QUALITY_RATINGS>>
    /\ UNCHANGED metering

Call_score_completeness ==
    /\ Calling("completeness")
    /\ Finish(Returned(score_completeness(Head(pending).content, Head(pending).format_type)))
    /\ UNCHANGED <<halfway_up, DIMENSION_WEIGHTS, QUALITY_RATINGS>>
    /\ UNCHANGED metering

Call_score_format_compliance ==
    /\ Calling("format_compliance")
    /\ Finish(Returned(score_format_compliance(Head(pending).content, Head(pending).format_type)))
    /\ UNCHANGED <<halfway_up, DIMENSION_WEIGHTS, QUALITY_RATINGS>>
    /\ UNCHANGED metering

Call_score_coverage ==
    /\ Calling("coverage")
    /\ Finish(Returned(score_coverage(Head(pending).content, Head(pending).format_type)))
    /\ UNCHANGED <<halfway_up, DIMENSION_WEIGHTS, QUALITY_RATINGS>>
    /\ UNCHANGED metering

Call_score_clarity ==
    /\ Calling("clarity")
    /\ Finish(Returned(score_clarity(Head(pending).content, Head(pending).format_type)))
    /\ UNCHANGED <<halfway_up, DIMENSION_WEIGHTS, QUALITY_RATINGS>>
    /\ UNCHANGED metering

Call_score_validity ==
    /\ Calling("validity")
    /\ Finish(Returned(score_validity(Head(pending).content, Head(pending).format_type)))
    /\ UNCHANGED <<halfway_up, DIMENSION_WEIGHTS, QUALITY_RATINGS>>
    /\ UNCHANGED metering

Call_get_quality_rating ==
    /\ Calling("get_quality_rating")
    /\ Finish(Returned(get_quality_rating(Head(pending).score)))
    /\ UNCHANGED <<halfway_up, DIMENSION_WEIGHTS, QUALITY_RATINGS>>
    /\ UNCHANGED metering

\* A faulty variant of the call of score_submission: the threshold of the
\* caller is dropped for the default one
Call_score_submission_default_threshold ==
    /\ Calling("score_submission")
    /\ Finish(score_submission(Head(pending).content, DEFAULT_PASS_THRESHOLD))
    /\ UNCHANGED <<halfway_up, DIMENSION_WEIGHTS, QUALITY_RATINGS>>
    /\ UNCHANGED metering

\* A faulty variant of the call of score_submission: it uses up the weight of
\* the dimensions it has scored
Call_score_submission_reweighting ==
    /\ Calling("score_submission")
    /\ Finish(score_submission(Head(pending).content, Head(pending).pass_threshold))
    /\ DIMENSION_WEIGHTS' = [dim \in DOMAIN DIMENSION_WEIGHTS |-> 0]
    /\ UNCHANGED <<halfway_up, QUALITY_RATINGS>>
    /\ UNCHANGED metering

Call_score_submission ==
    /\ Calling("score_submission")
    /\ Finish(score_submission(Head(pending).content, Head(pending).pass_threshold))
    /\ UNCHANGED <<halfway_up, DIMENSION_WEIGHTS, QUALITY_RATINGS>>
    /\ UNCHANGED metering

Call_score_batch ==
    /\ Calling("score_batch")
    /\ Finish(score_batch(Head(pending).submissions, Head(pending).pass_threshold))
    /\ UNCHANGED <<halfway_up, DIMENSION_WEIGHTS, QUALITY_RATINGS>>
    /\ UNCHANGED metering

Next ==
    \/ Call_detect_format
    \/ Call_score_completeness
    \/ Call_score_format_compliance
    \/ Call_score_coverage
    \/ Call_score_clarity
    \/ Call_score_validity
    \/ Call_get_quality_rating
    \/ Call_score_submission
    \/ Call_score_batch

Spec == Init /\ [][Next]_vars

SpecRepeat == InitRepeat /\ [][Next]_vars

------------------------------------------------------------------------
\* The requests.  A request with an API key runs validate_api_key, then the
\* engine, then track_usage; requests run side by side, and a step of one
\* request is a call of validate_api_key, a call of the engine, the load of
\* track_usage or its save.

\* The counters that the file holds at the start: the free key is new, one
\* request short of its limit, or at its limit
StartUsages ==
    {[NoUsage EXCEPT ![<<"cs_free", 1>>] = u] :
        u \in {0, PLANS["free"].limit - 1, PLANS["free"].limit}}

\* The contents that the requests send
RequestContents == {OneField, <<"a">>}

\* A request that has arrived with its key
Arrived(key) ==
    [key |-> key, pc |-> "validate_api_key", status |-> "-",
     user |-> [usage |-> 0, limit |-> 0], usage |-> NoUsage, month_key |-> 0]

InitRequests ==
    /\ Loaded
    /\ pending = <<>>
    /\ halfway_up = {}
    /\ usage_file \in StartUsages
    /\ units_due = usage_file
    /\ month = 1
    /\ requests \in [1..MaxRequests -> {Arrived(key) : key \in ApiKeys}]

At(r, pc) == requests[r].pc = pc

\* The calendar month ends
Tick ==
    /\ month < MaxMonths
    /\ month' = month + 1
    /\ UNCHANGED <<usage_file, requests, units_due>>
    /\ UNCHANGED scoring

\* What validate_api_key makes of a request: admitted with the user info,
\* or answered with the status of the HTTPException
Validated(request, outcome) ==
    IF outcome.exc = "none"
    THEN [request EXCEPT !.pc = "engine", !.user = [usage |-> outcome.v.usage,
                                                    limit |-> outcome.v.limit]]
    ELSE [request EXCEPT !.pc = "answered", !.status = outcome.exc]

Request_validate_api_key ==
    \E r \in DOMAIN requests :
        /\ At(r, "validate_api_key")
        /\ requests' = [requests EXCEPT ![r] =
                          Validated(@, validate_api_key(requests[r].key, usage_file, month))]
        /\ UNCHANGED <<usage_file, month, units_due>>
        /\ UNCHANGED scoring

\* What the engine makes of a request: track_usage is next when
\* score_submission has returned, none is recorded when it has raised
Scored_request(request, outcome) ==
    IF outcome.exc = "none" THEN [request EXCEPT !.pc = "track_usage"]
    ELSE [request EXCEPT !.pc = "answered", !.status = outcome.exc]

Request_score_submission ==
    \E r \in DOMAIN requests :
        /\ At(r, "engine")
        /\ \E c \in RequestContents :
              requests' = [requests EXCEPT ![r] =
                             Scored_request(@, score_submission(c, DEFAULT_PASS_THRESHOLD))]
        /\ UNCHANGED <<usage_file, month, units_due>>
        /\ UNCHANGED scoring

\* track_usage up to its _save_json: the file is loaded, the month is read
\* and the counter is raised in the dict that was loaded
Request_track_usage_load ==
    \E r \in DOMAIN requests :
        /\ At(r, "track_usage")
        /\ requests' = [requests EXCEPT ![r].pc = "_save_json",
                                        ![r].month_key = month,
                                        ![r].usage = Incremented(usage_file, requests[r].key, month)]
        /\ UNCHANGED <<usage_file, month, units_due>>
        /\ UNCHANGED scoring

\* The _save_json of track_usage: the dict is written and the call completes
Request_track_usage_save ==
    \E r \in DOMAIN requests :
        /\ At(r, "_save_json")
        /\ usage_file' = requests[r].usage
        /\ units_due' = Incremented(units_due, requests[r].key, requests[r].month_key)
        /\ requests' = [requests EXCEPT ![r].pc = "answered", ![r].status = "200"]
        /\ UNCHANGED month
        /\ UNCHANGED scoring

NextRequests ==
    \/ Tick
    \/ Request_validate_api_key
    \/ Request_score_submission
    \/ Request_track_usage_load
    \/ Request_track_usage_save

SpecRequests == InitRequests /\ [][NextRequests]_vars

------------------------------------------------------------------------
\* The properties

\* The finished calls of one function
Entries(op) == {k \in 1..Len(done) : done[k].call.op = op}

\* The scorings that have returned a ScoringResult, of score_submission and
\* of the items of score_batch: <<content, pass_threshold, result>>
Scored ==
    {<<done[k].call.content, done[k].call.pass_threshold, done[k].v>> :
        k \in {j \in Entries("score_submission") : done[j].exc = "none"}}
    \cup UNION {{<<done[k].call.submissions[i], done[k].call.pass_threshold, done[k].v[i]>> :
                    i \in 1..Len(done[k].v)} :
                k \in {j \in Entries("score_batch") : done[j].exc = "none"}}

\* The trimmed content is a structured payload: it starts with a brace or a
\* bracket and the strict parse succeeds
Structured(c) ==
    /\ StartsWith(Strip(c), <<"{">>) \/ StartsWith(Strip(c), <<"[">>)
    /\ json_loads(Strip(c)).ok

\* The code signals as the list of detect_format means them, the group of
\* the first one closed
code_signals ==
    << Cat(<<Bol, Star(Ws), Alt(<<Str(<<"d", "e", "f", " ">>), Str(<<"c", "l", "a", "s", "s",
        " ">>), Str(<<"f", "u", "n", "c", "t", "i", "o", "n", " ">>),
                                  Str(<<"i", "m", "p", "o", "r", "t", " ">>), Str(<<"f", "r", "o",
                                      "m", " ">>), Str(<<"#", "i", "n", "c", "l", "u", "d", "e",
                                      " ">>),
                                  Str(<<"p", "a", "c", "k", "a", "g", "e", " ">>), Str(<<"f", "u",
                                      "n", "c", " ">>)>>)>>),
       code_patterns[2].re, code_patterns[3].re, code_patterns[4].re,
       code_patterns[5].re >>

\* A code signal matches at the start of some line of the trimmed content
CodeSignalled(c) ==
    \E k \in 1..Len(code_signals) :
        re_search(code_signals[k], Strip(c), MULTILINE_IGNORECASE)

\* The number of the markup signals that match in the trimmed content
MarkupSignals(c) ==
    Cardinality({k \in 1..Len(md_patterns) : re_search(md_patterns[k].re, Strip(c), MULTILINE)})

\* C1: score_submission returns a complete ScoringResult for every content and
\* every threshold and never raises, and detect_format is total.
C1_NeverRaises ==
    \A k \in Entries("score_submission") \cup Entries("detect_format") :
        done[k].exc = "none"

\* C2: each of the five dimension scores lies in [0, 1], whatever the content
\* and the format the scorer is given, and so does the weighted score.
C2_ScoresInUnitInterval ==
    /\ \A k \in 1..Len(done) :
          done[k].call.op \in DOMAIN WeightTable =>
              done[k].exc = "none" /\ done[k].v[1] \in 0..1000
    /\ \A r \in Scored :
          /\ DOMAIN r[3].scores = DOMAIN WeightTable
          /\ \A dim \in DOMAIN WeightTable : r[3].scores[dim] \in 0..1000
          /\ r[3].weighted_score \in 0..1000

\* A result that holds a dimension at 0 and a dimension at 1
C2_Witness ==
    \E r \in Scored :
        /\ \E dim \in DOMAIN WeightTable : r[3].scores[dim] = 0
        /\ \E dim \in DOMAIN WeightTable : r[3].scores[dim] = 1000
        /\ r[3].weighted_score \in 1..999

\* C3: the pass flag of a result is true exactly when its rounded weighted
\* score is greater than or equal to the threshold of the call.
C3_PassIffAtLeastThreshold ==
    \A r \in Scored : r[3].pass_threshold = (r[3].weighted_score >= r[2])

\* A result whose weighted score is exactly the threshold, and that passes
C3_Witness ==
    \E r \in Scored : r[3].weighted_score = r[2] /\ r[3].pass_threshold

\* The descending rating table, in thousandths
RatingTiers ==
    << <<900, "Excellent">>, <<800, "Very Good">>, <<700, "Good">>,
       <<600, "Satisfactory">>, <<500, "Needs Improvement">>, <<0, "Poor">> >>
\* The entries of the table whose threshold a score reaches
TiersReached(sc) == {k \in 1..Len(RatingTiers) : RatingTiers[k][1] <= sc}
\* The place of a label in the table: 1 is the highest tier
Tier(label) == CHOOSE k \in 1..Len(RatingTiers) : RatingTiers[k][2] = label

\* C4: the rating of a score in [0, 1] is the label of the first entry of the
\* descending table whose threshold is at most the score; an entry always
\* matches; and no score above it gets a lower tier.
C4_RatingIsFirstMatch ==
    /\ \A k \in Entries("get_quality_rating") :
          LET sc == done[k].call.score
          IN  /\ done[k].exc = "none"
              /\ TiersReached(sc) # {}
              /\ done[k].v = RatingTiers[Min(TiersReached(sc))][2]
              /\ \A s2 \in sc..1000 : Tier(get_quality_rating(s2)) <= Tier(done[k].v)
    /\ \A r \in Scored :
          r[3].quality_rating = RatingTiers[Min(TiersReached(r[3].weighted_score))][2]

\* The rating of a score that is exactly a threshold of the table
C4_Witness ==
    \E k \in Entries("get_quality_rating") :
        /\ done[k].call.score = 900
        /\ done[k].v = "Excellent"

\* C5: detect_format answers Structured only for a trimmed content that
\* starts with a brace or a bracket and parses; a content that starts with one
\* and does not parse is classified Code, Markup or PlainText.
C5_StructuredOnlyIfParsed ==
    \A k \in Entries("detect_format") :
        LET s == Strip(done[k].call.content)
        IN  /\ (done[k].exc = "none" /\ done[k].v = JSON) => Structured(done[k].call.content)
            /\ ((StartsWith(s, <<"{">>) \/ StartsWith(s, <<"[">>)) /\ ~json_loads(s).ok)
                   => (done[k].exc = "none" /\ done[k].v \in {CODE, MARKDOWN, TEXT})

\* C6: a content that is not Structured is classified Code whenever a code
\* signal matches at the start of any of its lines, whatever the case.
C6_CodeOnAnyLine ==
    \A k \in Entries("detect_format") :
        (~Structured(done[k].call.content) /\ CodeSignalled(done[k].call.content))
            => (done[k].exc = "none" /\ done[k].v = CODE)

\* C7: a content that is neither Structured nor Code is classified Markup
\* exactly when at least two distinct markup signals match, and PlainText
\* when none or one does.
C7_MarkupIffTwoSignals ==
    \A k \in Entries("detect_format") :
        (~Structured(done[k].call.content) /\ ~CodeSignalled(done[k].call.content))
            => /\ done[k].exc = "none"
               /\ done[k].v = IF MarkupSignals(done[k].call.content) >= 2
                              THEN MARKDOWN ELSE TEXT

\* The all-clear marker of each dimension
Marker ==
    [dim \in DOMAIN WeightTable |->
        CASE dim = "completeness" -> "Complete"
          [] dim = "format_compliance" -> "Format compliant"
          [] dim = "coverage" -> "Good coverage"
          [] dim = "clarity" -> "Clear and readable"
          [] dim = "validity" -> "Valid"]

\* The dimensions whose scorer does not answer its all-clear marker for a
\* content of a format, in the order of the dimensions
Remarked(c, f) ==
    SelectSeq(Dimensions, LAMBDA dim : Scorer(dim, c, f)[2] # <<Msg(Marker[dim], <<>>)>>)

\* C8: the feedback list of a result is never empty: it holds one entry
\* "dimension: feedback" for each dimension whose feedback is not its
\* all-clear marker, in the order of the dimensions, and it is the one entry
\* "All dimensions satisfactory" exactly when all five are all clear.
C8_FeedbackList ==
    \A r \in Scored :
        LET dims == Remarked(r[1], r[3].format_detected)
        IN  /\ Len(r[3].feedback) > 0
            /\ r[3].feedback =
                  IF Len(dims) = 0 THEN <<<<"All dimensions satisfactory", <<>>>>>>
                  ELSE [j \in 1..Len(dims) |->
                          <<dims[j], Scorer(dims[j], r[1], r[3].format_detected)[2]>>]

\* A result with an entry for the first and the fourth dimension only
C8_Witness ==
    \E r \in Scored :
        /\ Len(r[3].feedback) = 2
        /\ r[3].feedback[1][1] = "completeness"
        /\ r[3].feedback[2][1] = "clarity"

\* C9: score_batch returns a list as long as its submissions whose i-th
\* result is what score_submission returns for the i-th submission.
C9_BatchIsMap ==
    \A k \in Entries("score_batch") :
        /\ done[k].exc = "none"
        /\ Len(done[k].v) = Len(done[k].call.submissions)
        /\ \A i \in 1..Len(done[k].call.submissions) :
              done[k].v[i] = score_submission(done[k].call.submissions[i],
                                              done[k].call.pass_threshold).v

\* Two finished calls with the same arguments have the same outcome (no call
\* is finished at the start)
SameCallSameOutcome ==
    \A j, k \in 1..Len(done) :
        done[j].call = done[k].call =>
            done[j].exc = done[k].exc /\ done[j].v = done[k].v

\* A step leaves alone the tables and everything else that a call reads
TablesKept ==
    /\ DIMENSION_WEIGHTS' = DIMENSION_WEIGHTS
    /\ QUALITY_RATINGS' = QUALITY_RATINGS
    /\ halfway_up' = halfway_up

\* C10: two calls of score_submission with the same content and threshold
\* return identical results, whatever is called in between, and no call
\* changes the weight table, the rating table or anything a later call reads.
C10_DeterministicStateless == [][TablesKept /\ SameCallSameOutcome']_vars

\* The same scoring returned twice, around a call of score_batch
C10_Witness ==
    /\ Len(done) = 3
    /\ done[1].call.op = "score_submission"
    /\ done[1].exc = "none"
    /\ done[2].call.op = "score_batch"
    /\ done[3].call = done[1].call

------------------------------------------------------------------------
\* The coverage and the validity of structured payloads

\* The payloads that parse to a mapping or to a sequence
ParsesToContainer(c) ==
    json_loads(c).ok /\ (IsDict(json_loads(c).v) \/ IsList(json_loads(c).v))

\* The average of key-count / 10 and nesting-depth / 5, each capped at 1
\* before averaging: (min(10, k) + 2 * min(5, d)) / 20
CappedAverage(k, d) == Round3(Min({10, k}) + 2 * Min({5, d}), 20)

\* The coverage that the capped average gives to a parsed mapping
MappingCoverage(v) == CappedAverage(Len(v[2]), get_dict_depth(v, 0))

\* C11: the coverage of a structured payload that is a mapping with k keys
\* and nesting depth d is (min(1, k/10) + min(1, d/5)) / 2, each term capped
\* on its own; in a result of score_submission as in a call of the scorer.
C11_CoverageCapsEachTerm ==
    /\ \A j \in Entries("coverage") :
          (/\ done[j].call.format_type = JSON
           /\ json_loads(done[j].call.content).ok
           /\ IsDict(json_loads(done[j].call.content).v))
          => done[j].v[1] = MappingCoverage(json_loads(done[j].call.content).v)
    /\ \A r \in Scored :
          (/\ r[3].format_detected = JSON
           /\ json_loads(r[1]).ok
           /\ IsDict(json_loads(r[1]).v))
          => r[3].scores["coverage"] = MappingCoverage(json_loads(r[1]).v)

RECURSIVE EmptyValues(_), EmptyAmong(_, _)
\* The values anywhere in a mapping or a sequence that are null, an empty
\* string or an empty container, counted the same way in both
EmptyValues(v) ==
    IF IsDict(v) THEN EmptyAmong(v[3], Len(v[3]))
    ELSE IF IsList(v) THEN EmptyAmong(v[2], Len(v[2]))
    ELSE 0

\* Those among the first k of the values xs and inside them
EmptyAmong(xs, k) ==
    IF k = 0 THEN 0
    ELSE EmptyAmong(xs, k - 1)
         + (IF \/ IsNone(xs[k]) \/ IsEmptyStr(xs[k])
               \/ IsEmptyList(xs[k]) \/ IsEmptyDict(xs[k])
            THEN 1
            ELSE EmptyValues(xs[k]))

\* 1.0 minus 0.1 for each empty value, for five of them at most
ValidityOfEmpties(n) == 1000 - 100 * Min({n, 5})

\* C12: the validity of a parsed structured payload is 1.0 - 0.1 * min(n, 5)
\* for the n values in it that are null, an empty string or an empty
\* container, whether they sit in a mapping or in a sequence and however
\* deep; so it is never below 0.5.
C12_ValidityCountsEmptyValues ==
    \A j \in Entries("validity") :
        (done[j].call.format_type = JSON /\ ParsesToContainer(done[j].call.content))
        => /\ done[j].v[1] = ValidityOfEmpties(EmptyValues(json_loads(done[j].call.content).v))
           /\ done[j].v[1] >= 500

------------------------------------------------------------------------
\* The usage metering

\* C13: the stored counter of every key and month has grown by exactly one
\* unit for each completed call of track_usage for that key in that month,
\* also when the calls of several requests interleave, and no other counter
\* has changed.
C13_OneUnitPerCall == usage_file = units_due

\* The limit of the plan of a key of the file
LimitOf(key) == PlanConfig(KeysFile[key].plan).limit

\* C14: a request goes on to the engine only when validate_api_key has found
\* the usage of its key below the limit of its plan, and the recorded usage
\* of a key in a month never exceeds that limit, also when the requests of
\* one key interleave.
C14_UsageWithinLimit ==
    /\ \A r \in DOMAIN requests :
          requests[r].pc \in {"engine", "track_usage", "_save_json"}
              => requests[r].user.usage < requests[r].user.limit
    /\ \A key \in DOMAIN KeysFile, m \in Months :
          usage_file[<<key, m>>] <= LimitOf(key)

====
